---- MODULE Spec2Model ----
(***************************************************************************)
(* A model of the tournament controller of the chess tournament manager:   *)
(* controller/tournament_controller.py (creation, registration, resume and *)
(* the play loop) and repository/player_repository.py (the index prompt    *)
(* and the sorted player registry).  The tournament model classes, the     *)
(* tournament repository and the views are collaborators of the            *)
(* controller; the parts of them the controller relies on are modelled     *)
(* from the design document.                                               *)
(*                                                                         *)
(* Scores are doubled so that they are integers: a win is 2, a draw 1.     *)
(***************************************************************************)
EXTENDS Integers, Sequences, FiniteSets, TLC

\* ------------------------------------------------------------------ bounds

\* A tournament is defined with 0..MaxRounds rounds.
MaxRounds == 2
\* Players created from the registration menu (choice 2) in one session.
MaxCreated == 1
\* Top-level operations (create, resume unstarted, resume) that are started.
MaxSessions == 2
\* An index typed at the prompt is at most this far past the highest index
\* selected so far.
IndexWindow == 1
\* Names under which a tournament is defined.
MaxTournaments == 1

\* ------------------------------------------------------- program constants

\* "Le nombre de joueur doit être de minimum 6 et pair."
MinPlayers == 6

\* The value of an unset timestamp (Python's None); a set one is positive.
None == 0

\* ------------------------------------------------------------ the registry

\* players.json, in file order.  Two entries share a full name.
Roster ==
  << [firstname |-> 1, lastname |-> 3, ncid |-> 1],
     [firstname |-> 1, lastname |-> 1, ncid |-> 2],
     [firstname |-> 2, lastname |-> 2, ncid |-> 3],
     [firstname |-> 2, lastname |-> 1, ncid |-> 4],
     [firstname |-> 1, lastname |-> 2, ncid |-> 5],
     [firstname |-> 2, lastname |-> 3, ncid |-> 6],
     [firstname |-> 1, lastname |-> 3, ncid |-> 7] >>

\* The registry files a run starts from.
RegistryFiles == { Roster, << >> }

\* The full names a player created from the registration menu is given.
CreatedNames == { <<1, 1>>, <<3, 4>> }

\* --------------------------------------------------------------- sequences

Range(s) == { s[i] : i \in DOMAIN s }

SeqMax(s) == IF s = << >> THEN 0
             ELSE CHOOSE m \in Range(s) : \A x \in Range(s) : x <= m

\* pair <<k, x>> placed into a sequence sorted by k, after every pair whose
\* key is not larger (a stable insertion).
RECURSIVE InsertStable(_, _)
InsertStable(pair, sorted) ==
  IF sorted = << >> THEN << pair >>
  ELSE IF Head(sorted)[1] <= pair[1]
       THEN << Head(sorted) >> \o InsertStable(pair, Tail(sorted))
       ELSE << pair >> \o sorted

\* Python's sorted() on <<key, item>> pairs: ascending by key, and stable.
RECURSIVE SortedPairs(_)
SortedPairs(pairs) ==
  IF pairs = << >> THEN << >>
  ELSE InsertStable(pairs[Len(pairs)],
                    SortedPairs(SubSeq(pairs, 1, Len(pairs) - 1)))

\* sorted(items, key=Key): the items in ascending, stable order of keys,
\* given as the sequence of their keys.
SortedByKeys(items, keys) ==
  LET s == SortedPairs([i \in DOMAIN items |-> <<keys[i], items[i]>>])
  IN  [i \in DOMAIN s |-> s[i][2]] \o << >>

\* sorted(items, key=Key, reverse=True): descending, equal keys keep their
\* order.
SortedByKeysReverse(items, keys) ==
  SortedByKeys(items, [i \in DOMAIN keys |-> 0 - keys[i]])

\* -------------------------------------------------------- player registry

\* PlayerRepository.get_player_by_alphabetical_order
SortedPlayers(file) ==
  SortedByKeys(file, [i \in DOMAIN file |-> file[i].lastname])

SameName(p, q) == p.firstname = q.firstname /\ p.lastname = q.lastname

\* ------------------------------------------------------- the index prompt

\* The characters of a typed line: the ASCII digits, a letter, a minus sign
\* and SUPERSCRIPT TWO, which str.isdigit accepts and int() refuses.
AsciiDigits == << "0", "1", "2", "3", "4", "5", "6", "7", "8", "9" >>

IsAsciiDigit(c) == \E d \in DOMAIN AsciiDigits : AsciiDigits[d] = c

DigitValue(c) == (CHOOSE d \in DOMAIN AsciiDigits : AsciiDigits[d] = c) - 1

\* str.isdigit: not empty, and every character a digit.
IsDigit(line) ==
  /\ line # << >>
  /\ \A i \in DOMAIN line : IsAsciiDigit(line[i]) \/ line[i] = "sup2"

\* int() raises ValueError on a line that is not a decimal literal.
IntRaises(line) == \E i \in DOMAIN line : ~IsAsciiDigit(line[i])

RECURSIVE IntOf(_)
IntOf(line) ==
  IF line = << >> THEN 0
  ELSE 10 * IntOf(SubSeq(line, 1, Len(line) - 1)) + DigitValue(line[Len(line)])

\* The decimal line a user types for the number n < 100.
Typed(n) == IF n < 10 THEN << AsciiDigits[n + 1] >>
            ELSE << AsciiDigits[(n \div 10) + 1], AsciiDigits[(n % 10) + 1] >>

\* ------------------------------------------------- tournaments and rounds

\* Round(name, matches, start_time, end_time), as create_new_tournament
\* builds it from the details of the view.
Round(start_time, end_time) ==
  [start_time |-> start_time, end_time |-> end_time, matches |-> << >>]

\* The start and end times the view gives the rounds of a new tournament:
\* unscheduled, or in progress.
RoundTemplates == { <<None, None>>, <<1, None>> }

\* Tournament(name, ...) followed by add_round for each round of the details.
NewTournament(name, nrounds, template) ==
  [name          |-> name,
   rounds        |-> [i \in 1..nrounds |-> Round(template[1], template[2])],
   current_round |-> 0,
   players_list  |-> << >>,
   players_score |-> << >>]

\* The value of the controller's tournament reference when it holds none.
NoTournament == NewTournament(0, 0, <<None, None>>)

\* A match: two players and their (doubled) scores.
Match(p1, p2) == [p1 |-> p1, p2 |-> p2, s1 |-> 0, s2 |-> 0]

\* The results the result-capture collaborator can report for one match:
\* a win of either player or a draw.
Outcomes == { <<2, 0>>, <<0, 2>>, <<1, 1>> }

\* ------------------------------------------------------------ score ledger

\* The score a match gives a player: players are compared by full name.
MatchScore(player, m) ==
  (IF SameName(m.p1, player) THEN m.s1 ELSE 0)
  + (IF SameName(m.p2, player) THEN m.s2 ELSE 0)

RECURSIVE SumMatches(_, _)
SumMatches(player, matches) ==
  IF matches = << >> THEN 0
  ELSE MatchScore(player, Head(matches)) + SumMatches(player, Tail(matches))

\* Player.calculate_total_score(rounds, previous_scores): the sum of the
\* player's scores over every match of every round.
RECURSIVE CalculateTotalScore(_, _)
CalculateTotalScore(player, rounds) ==
  IF rounds = << >> THEN 0
  ELSE SumMatches(player, Head(rounds).matches)
       + CalculateTotalScore(player, Tail(rounds))

\* ---------------------------------------------------------- pairing engine

\* Two players met in one of the rounds.
Played(p, q, rounds) ==
  \E i \in DOMAIN rounds : \E j \in DOMAIN rounds[i].matches :
    LET m == rounds[i].matches[j]
    IN  \/ SameName(m.p1, p) /\ SameName(m.p2, q)
        \/ SameName(m.p1, q) /\ SameName(m.p2, p)

RemoveAt(s, k) == SubSeq(s, 1, k - 1) \o SubSeq(s, k + 1, Len(s))

\* A pairing engine that always takes the next player of the ranking.
PartnerNextInRanking(p, rest, history) == 1

\* The partner of the head of the pool among the rest: the first player the
\* head has not met, or the next available one when it has met them all.
Partner(p, rest, history) ==
  LET fresh == { i \in DOMAIN rest : ~Played(p, rest[i], history) }
  IN  IF fresh = {} THEN 1
      ELSE CHOOSE i \in fresh : \A j \in fresh : i <= j

\* A walk that leaves the partner in the pool.
RECURSIVE PairPoolKeepingPartner(_, _)
PairPoolKeepingPartner(pool, history) ==
  IF Len(pool) < 2 THEN << >>
  ELSE << Match(Head(pool), Tail(pool)[Partner(Head(pool), Tail(pool), history)]) >>
       \o PairPoolKeepingPartner(Tail(pool), history)

\* The walk down the ranked pool.
RECURSIVE PairPool(_, _)
PairPool(pool, history) ==
  IF Len(pool) < 2 THEN << >>
  ELSE LET p    == Head(pool)
           rest == Tail(pool)
           k    == Partner(p, rest, history)
       IN  << Match(p, rest[k]) >> \o PairPool(RemoveAt(rest, k), history)

\* The players ranked by descending total score, ties in list order.
Ranked(t) ==
  SortedByKeysReverse(t.players_list,
    [i \in DOMAIN t.players_list |->
       CalculateTotalScore(t.players_list[i], t.rounds)])

\* The rounds before the current one.
History(t) == SubSeq(t.rounds, 1, t.current_round)

\* The matches of the current round before their results are captured.
Pairs(t) == PairPool(Ranked(t), History(t))

\* The results reported for the pairs, attached to them.
Scored(pairs, results) ==
  [j \in DOMAIN pairs |->
     [pairs[j] EXCEPT !.s1 = results[j][1], !.s2 = results[j][2]]] \o << >>

\* Tournament.generate_pairs_for_round: the current round's matches are
\* populated, with the results the collaborator reports.
GeneratePairsForRound(t, results) ==
  [t EXCEPT !.rounds[t.current_round + 1].matches = Scored(Pairs(t), results)]

\* -------------------------------------------------------------- leaderboard

\* calculate_leaderboard: the (player, total score) list ...
Leaderboard(t) ==
  [i \in DOMAIN t.players_list |->
     << t.players_list[i],
        CalculateTotalScore(t.players_list[i], t.rounds) >>] \o << >>

\* A descending sort that is the reverse of the ascending one: players of
\* equal score come out in reverse order.
SortedLeaderboardReversed(t) ==
  LET lb  == Leaderboard(t)
      asc == SortedByKeys(lb, [i \in DOMAIN lb |-> lb[i][2]])
  IN  [i \in DOMAIN asc |-> asc[Len(asc) + 1 - i]] \o << >>

\* ... sorted by total score in descending order.
SortedLeaderboard(t) ==
  LET lb == Leaderboard(t)
  IN  SortedByKeysReverse(lb, [i \in DOMAIN lb |-> lb[i][2]])

\* A key that tells players of the same name apart.
FullNameAndId(p) == << p.firstname, p.lastname, p.ncid >>

FullName(p) == << p.firstname, p.lastname >>

\* tournament.players_score: "Firstname Lastname" -> score, a later entry of
\* the sorted leaderboard overwriting an earlier one of the same name.
PlayersScore(t) ==
  LET sl == SortedLeaderboard(t)
      names == { FullName(sl[i][1]) : i \in DOMAIN sl }
      Last(n) == CHOOSE i \in DOMAIN sl :
                   /\ FullName(sl[i][1]) = n
                   /\ \A j \in DOMAIN sl : FullName(sl[j][1]) = n => j <= i
  IN  [n \in names |-> sl[Last(n)][2]]

CalculateLeaderboard(t) == [t EXCEPT !.players_score = PlayersScore(t)]

\* ------------------------------------------------------ tournament storage

\* Tournament.to_json: the record that is stored, a match as its two
\* [player, score] entries.
ToJson(t) ==
  [name          |-> t.name,
   current_round |-> t.current_round,
   players       |-> t.players_list,
   players_score |-> t.players_score,
   rounds        |-> [i \in DOMAIN t.rounds |->
                        [start_time |-> t.rounds[i].start_time,
                         end_time   |-> t.rounds[i].end_time,
                         matches    |-> [j \in DOMAIN t.rounds[i].matches |->
                            LET m == t.rounds[i].matches[j]
                            IN  << <<m.p1, m.s1>>, <<m.p2, m.s2>> >>]]]]

\* Tournament.from_json: the tournament object of a stored record.
FromJson(j) ==
  [name          |-> j.name,
   current_round |-> j.current_round,
   players_list  |-> j.players,
   players_score |-> j.players_score,
   rounds        |-> [i \in DOMAIN j.rounds |->
                        [start_time |-> j.rounds[i].start_time,
                         end_time   |-> j.rounds[i].end_time,
                         matches    |-> [k \in DOMAIN j.rounds[i].matches |->
                            LET e == j.rounds[i].matches[k]
                            IN  [p1 |-> e[1][1], s1 |-> e[1][2],
                                 p2 |-> e[2][1], s2 |-> e[2][2]]]]]]

\* The names tournaments are given.
TournamentNames == 1..MaxTournaments

\* The record kept under a name no tournament was saved under.
NoRecord == ToJson(NoTournament)

\* TournamentRepository.add_tournament: the record of the tournament is
\* saved under its name, in place of an earlier one.
AddTournament(st, t) == [st EXCEPT ![t.name] = ToJson(t)]

Stored(st) == { st[n] : n \in { m \in TournamentNames : st[m] # NoRecord } }

\* TournamentRepository.find_unstarted_tournaments
FindUnstartedTournaments(st) == { j \in Stored(st) : j.current_round = 0 }

\* The records TournamentRepository.resume_tournament offers.
Resumable(st) ==
  { j \in Stored(st) : 0 < j.current_round /\ j.current_round < Len(j.rounds) }

\* ----------------------------------------------------------------- state

VARIABLES
  players_json,            \* the player registry file
  capture,                 \* the result vectors the result-capture
                           \* collaborator reports: "uniform" or "any"
  store,                   \* the tournament repository: name -> record
  pc,                      \* where the controller is: "menu", "register",
                           \* "index_prompt", "play", or the exception that
                           \* ended it
  tour,                    \* the tournament object the controller works on
  selected_players,        \* add_players_to_tournament's selected_players
  selected_players_index,  \* add_players_to_tournament's list of indexes
  num_players,             \* TournamentController.num_players
  clock,                   \* the last value datetime.now() returned
  log,                     \* what the last play_tournament call did so far
  last,                    \* the last step of the controller and its outcome
  sessions                 \* top-level operations started so far

vars == << players_json, capture, store, pc, tour, selected_players,
           selected_players_index, num_players, clock, log, last, sessions >>

env == << players_json, capture >>

regvars == << selected_players, selected_players_index, num_players >>

Init ==
  /\ players_json \in RegistryFiles
  /\ capture = "uniform"
  /\ store = [n \in TournamentNames |-> NoRecord]
  /\ pc = "menu"
  /\ tour = NoTournament
  /\ selected_players = << >>
  /\ selected_players_index = << >>
  /\ num_players = 0
  /\ clock = 1
  /\ log = << >>
  /\ last = "start"
  /\ sessions = 0

\* ------------------------------------------------------------ registration

\* add_players_to_tournament up to its menu loop: the players already in the
\* tournament are selected again and the tournament's list is emptied.
AddPlayersEntry(t) ==
  /\ selected_players' = t.players_list
  /\ selected_players_index' = << >>
  /\ num_players' = num_players + Len(t.players_list)
  /\ tour' = [t EXCEPT !.players_list = << >>]
  /\ pc' = "register"

\* add_players_to_tournament returns: its local lists are gone.
AddPlayersExit ==
  /\ selected_players' = << >>
  /\ selected_players_index' = << >>
  /\ num_players' = num_players

\* A play_tournament that starts again with the first round.
PlayEntryAtFirstRound(t) ==
  /\ tour' = [t EXCEPT !.current_round = 0]
  /\ pc' = "play"
  /\ log' = << >>

\* play_tournament is called: nothing is done before its loop.
PlayEntry(t) ==
  /\ tour' = t
  /\ pc' = "play"
  /\ log' = << >>

\* create_new_tournament
CreateNewTournament ==
  /\ pc = "menu"
  /\ sessions < MaxSessions
  /\ \E name \in TournamentNames, nrounds \in 0..MaxRounds,
        template \in RoundTemplates, add \in BOOLEAN :
       LET t == NewTournament(name, nrounds, template)
       IN  /\ store' = AddTournament(store, t)
           /\ IF add
              THEN AddPlayersEntry(t)
              ELSE /\ tour' = t
                   /\ UNCHANGED << pc, regvars >>
  /\ last' = "create_new_tournament"
  /\ sessions' = sessions + 1
  /\ UNCHANGED << env, clock, log >>

\* create_new_tournament when the view gives no details, or no rounds:
\* nothing is saved, and the controller keeps nothing.
CreateNewTournamentCancelled ==
  /\ pc = "menu"
  /\ last' = "create_new_tournament: cancelled"
  /\ UNCHANGED << env, store, pc, tour, regvars, clock, log, sessions >>

\* The players created so far among the selected ones.
Created(sel) == { i \in DOMAIN sel : sel[i].ncid > 100 }

\* The lines typed at the index prompt.
IndexLines ==
  { << >>, << "a" >>, << "-", "1" >>, << "sup2" >>, << "0" >>,
    << "0", "1" >>, << "9", "9" >> }
  \cup { Typed(n) : n \in 1..(SeqMax(selected_players_index) + IndexWindow) }

\* Menu choice 1: get_selected_player is entered.
AddPlayersChoice1 ==
  /\ pc = "register"
  /\ pc' = "index_prompt"
  /\ last' = "choice 1"
  /\ UNCHANGED << env, store, tour, regvars, clock, log, sessions >>

\* any(... for player in selected_players): the name is already selected.
AlreadySelected(p, sel) == \E i \in DOMAIN sel : SameName(sel[i], p)

\* One line typed at the prompt of get_selected_player and, when it is a
\* valid index, the rest of menu choice 1.
GetSelectedPlayer ==
  /\ pc = "index_prompt"
  /\ \E line \in IndexLines :
       LET sorted_players == SortedPlayers(players_json)
       IN  IF ~IsDigit(line)
           THEN /\ last' = "index: not a number"
                /\ UNCHANGED << pc, regvars >>
           ELSE IF IntRaises(line)
           THEN /\ pc' = "ValueError"
                /\ last' = "index: ValueError"
                /\ UNCHANGED regvars
           ELSE IF ~(1 <= IntOf(line) /\ IntOf(line) <= Len(sorted_players))
           THEN /\ last' = "index: invalid"
                /\ UNCHANGED << pc, regvars >>
           ELSE LET index == IntOf(line)
                    selected_player == sorted_players[index]
                IN  IF AlreadySelected(selected_player, selected_players)
                    THEN /\ pc' = "register"
                         /\ last' = "index: already added"
                         /\ UNCHANGED regvars
                    ELSE /\ selected_players_index' =
                              Append(selected_players_index, index)
                         /\ selected_players' =
                              Append(selected_players, selected_player)
                         /\ num_players' = num_players + 1
                         /\ pc' = "register"
                         /\ last' = "index: added"
  /\ UNCHANGED << env, store, tour, clock, log, sessions >>

\* The player create_new_player gives under a full name.
NewPlayer(name, sel) ==
  [firstname |-> name[1], lastname |-> name[2],
   ncid |-> 100 + Cardinality(Created(sel)) + 1]

\* Menu choice 2: player_controller.create_new_player gives a new player, who
\* is selected, or none.
AddPlayersChoice2 ==
  /\ pc = "register"
  /\ \/ /\ Cardinality(Created(selected_players)) < MaxCreated
        /\ \E name \in CreatedNames :
             /\ selected_players' =
                  Append(selected_players, NewPlayer(name, selected_players))
             /\ num_players' = num_players + 1
        /\ last' = "choice 2: added"
        /\ UNCHANGED selected_players_index
     \/ /\ last' = "choice 2: no player"
        /\ UNCHANGED regvars
  /\ UNCHANGED << env, store, pc, tour, clock, log, sessions >>

\* A condition of menu choice 3 without the parity test.
ValidCountAnyParity(sel) == Len(sel) >= MinPlayers

\* The condition of menu choice 3.
ValidCount(sel) == Len(sel) >= MinPlayers /\ Len(sel) % 2 = 0

\* Menu choice 3: the selected players are committed and the tournament is
\* saved, and played if the user wants to; or the count is refused.
AddPlayersChoice3 ==
  /\ pc = "register"
  /\ IF ValidCount(selected_players)
     THEN LET t == [tour EXCEPT
                      !.players_list = tour.players_list \o selected_players]
          IN  /\ store' = AddTournament(store, t)
              /\ AddPlayersExit
              /\ last' = "choice 3: players added"
              /\ \/ PlayEntry(t)
                 \/ /\ tour' = t
                    /\ pc' = "menu"
                    /\ log' = log
     ELSE /\ last' = "choice 3: refused"
          /\ UNCHANGED << store, pc, tour, log, regvars >>
  /\ UNCHANGED << env, clock, sessions >>

\* Menu choice q, confirmed or not.
AddPlayersQuit ==
  /\ pc = "register"
  /\ \E confirmed \in BOOLEAN :
       IF confirmed
       THEN pc' = "menu" /\ AddPlayersExit /\ last' = "choice q: confirmed"
       ELSE last' = "choice q" /\ UNCHANGED << pc, regvars >>
  /\ UNCHANGED << env, store, tour, clock, log, sessions >>

\* Any other menu choice.
AddPlayersInvalidChoice ==
  /\ pc = "register"
  /\ last' = "invalid choice"
  /\ UNCHANGED << env, store, pc, tour, regvars, clock, log, sessions >>

\* ------------------------------------------------------------------ resume

\* resume_unstarted_tournament: registration of a chosen unstarted
\* tournament; nothing when there is none or none is chosen.
ResumeUnstartedTournament ==
  /\ pc = "menu"
  /\ sessions < MaxSessions
  /\ LET unstarted_tournaments == FindUnstartedTournaments(store)
     IN  IF unstarted_tournaments = {}
         THEN /\ last' = "resume_unstarted_tournament: none"
              /\ UNCHANGED << pc, tour, regvars, sessions >>
         ELSE \E chosen_tournament \in unstarted_tournaments \cup {NoRecord} :
                IF chosen_tournament # NoRecord
                THEN /\ AddPlayersEntry(FromJson(chosen_tournament))
                     /\ last' = "resume_unstarted_tournament"
                     /\ sessions' = sessions + 1
                ELSE /\ last' = "resume_unstarted_tournament: none chosen"
                     /\ UNCHANGED << pc, tour, regvars, sessions >>
  /\ UNCHANGED << env, store, clock, log >>

\* A resume_tournament without the test of what the repository gave.
ResumeTournamentUnguarded ==
  /\ pc = "menu"
  /\ sessions < MaxSessions
  /\ \E chosen_tournament \in Resumable(store) \cup {NoRecord} :
       /\ PlayEntry(FromJson(chosen_tournament))
       /\ last' = IF chosen_tournament # NoRecord
                  THEN "resume_tournament" ELSE "resume_tournament: none"
       /\ sessions' = sessions + 1
  /\ UNCHANGED << env, store, regvars, clock >>

\* resume_tournament: the tournament the repository gives is played; nothing
\* when it gives none.
ResumeTournament ==
  /\ pc = "menu"
  /\ sessions < MaxSessions
  /\ \E chosen_tournament \in Resumable(store) \cup {NoRecord} :
       IF chosen_tournament # NoRecord
       THEN /\ PlayEntry(FromJson(chosen_tournament))
            /\ last' = "resume_tournament"
            /\ sessions' = sessions + 1
       ELSE /\ last' = "resume_tournament: none"
            /\ UNCHANGED << pc, tour, log, sessions >>
  /\ UNCHANGED << env, store, regvars, clock >>

\* --------------------------------------------------------------- play loop

\* The condition of play_tournament's while loop.
LoopCondition(t) == t.current_round <= Len(t.rounds)

\* tournament.rounds[tournament.current_round] raises IndexError.
IndexErrorAt(t) == (t.current_round + 1) \notin DOMAIN t.rounds

\* A start stamp written whether the start time is set or not.
StampStartAlways(t, now) ==
  [t EXCEPT !.rounds[t.current_round + 1].start_time = now]

\* The start time of the current round is set when it is not set yet.
StampStart(t, now) ==
  IF t.rounds[t.current_round + 1].start_time = None
  THEN [t EXCEPT !.rounds[t.current_round + 1].start_time = now]
  ELSE t

\* The end time of the current round is set when it is not set yet.
StampEnd(t, now) ==
  IF t.rounds[t.current_round + 1].end_time = None
  THEN [t EXCEPT !.rounds[t.current_round + 1].end_time = now]
  ELSE t

\* A last-round test that is late by one round.
IsPastLastRound(t) == t.current_round = Len(t.rounds)

\* tournament.current_round == len(tournament.rounds) - 1
IsLastRound(t) == t.current_round = Len(t.rounds) - 1

\* No advance of current_round.
AdvanceRoundNot(t) == t

\* An advance that skips a round.
AdvanceRoundByTwo(t) == [t EXCEPT !.current_round = t.current_round + 2]

\* tournament.current_round += 1
AdvanceRound(t) == [t EXCEPT !.current_round = t.current_round + 1]

\* A loop that is left on 'stop' only.
LeavesLoopOnStopOnly(t, play_next) == ~play_next

\* Whether the loop is left after a round (break): it was the last one, or
\* the user does not play the next.
LeavesLoop(t, play_next) == IsLastRound(t) \/ ~play_next

\* A loop that saves after the last round only.
SavesAfterLastRoundOnly(t, play_next) == IsLastRound(t)

\* Whether the tournament is saved after a round: in both branches that
\* leave the loop.
SavesTournament(t, play_next) == IsLastRound(t) \/ ~play_next

\* An iteration that stamps the end time before it computes the leaderboard.
EventsEndBeforeLeaderboard(k, stamped_start, stamped_end, asked, saved) ==
  (IF stamped_start THEN << <<"start_time", k>> >> ELSE << >>)
  \o << <<"pairs", k>> >>
  \o (IF stamped_end THEN << <<"end_time", k>> >> ELSE << >>)
  \o << <<"leaderboard", k>> >>
  \o (IF asked THEN << <<"ask", k>> >> ELSE << >>)
  \o (IF saved THEN << <<"save", k>> >> ELSE << >>)

\* The entries of the log one iteration on round k adds.
Events(k, stamped_start, stamped_end, asked, saved) ==
  (IF stamped_start THEN << <<"start_time", k>> >> ELSE << >>)
  \o << <<"pairs", k>>, <<"leaderboard", k>> >>
  \o (IF stamped_end THEN << <<"end_time", k>> >> ELSE << >>)
  \o (IF asked THEN << <<"ask", k>> >> ELSE << >>)
  \o (IF saved THEN << <<"save", k>> >> ELSE << >>)

\* The result vectors reported for the pairs of a round: any, or the same
\* result in every match.
ResultsOffered(pairs) ==
  IF capture = "any" THEN [DOMAIN pairs -> Outcomes]
  ELSE { [j \in DOMAIN pairs |-> o] : o \in Outcomes }

\* One iteration of play_tournament's loop.
PlayTournament ==
  /\ pc = "play"
  /\ IF ~LoopCondition(tour)
     THEN /\ pc' = "menu"
          /\ last' = "play_tournament: done"
          /\ UNCHANGED << store, tour, clock, log >>
     ELSE IF IndexErrorAt(tour)
     THEN /\ pc' = "IndexError"
          /\ last' = "play_tournament: IndexError"
          /\ UNCHANGED << store, tour, clock, log >>
     ELSE \E t1 \in { StampStart(tour, clock + 1) } :
          \E results \in ResultsOffered(Pairs(t1)), play_next \in BOOLEAN :
          \E t3 \in { CalculateLeaderboard(GeneratePairsForRound(t1, results)) } :
          \E t4 \in { StampEnd(t3, IF t1 # tour THEN clock + 2 ELSE clock + 1) } :
            LET k      == tour.current_round
                clock1 == IF t1 # tour THEN clock + 1 ELSE clock
                clock2 == IF t4 # t3 THEN clock1 + 1 ELSE clock1
                t5     == AdvanceRound(t4)
                saves  == SavesTournament(t4, play_next)
            IN  /\ tour' = t5
                /\ clock' = clock2
                /\ store' = IF saves THEN AddTournament(store, t5) ELSE store
                /\ pc' = IF LeavesLoop(t4, play_next) THEN "menu" ELSE "play"
                /\ log' = log \o Events(k, t1 # tour, t4 # t3,
                                        ~IsLastRound(t4), saves)
                /\ last' = "play_tournament: round"
  /\ UNCHANGED << env, regvars, sessions >>

\* ------------------------------------------------------------ specification

Next ==
  \/ CreateNewTournament
  \/ CreateNewTournamentCancelled
  \/ AddPlayersChoice1
  \/ GetSelectedPlayer
  \/ AddPlayersChoice2
  \/ AddPlayersChoice3
  \/ AddPlayersQuit
  \/ AddPlayersInvalidChoice
  \/ ResumeUnstartedTournament
  \/ ResumeTournament
  \/ PlayTournament

Spec == Init /\ [][Next]_vars

\* ----------------------------------------- the play loop on its own

\* The player lists of the tournaments played on their own: the first six
\* players of the registry, five of them with a created player of the name
\* of the first, and six with two created players.
Pool6 == SubSeq(SortedPlayers(Roster), 1, 6)

Pool6h ==
  LET five == SubSeq(SortedPlayers(Roster), 1, 5)
  IN  Append(five, NewPlayer(<<1, 1>>, five))

Pool8 ==
  LET seven == Append(Pool6, NewPlayer(<<3, 4>>, Pool6))
  IN  Append(seven, NewPlayer(<<1, 1>>, seven))

\* A tournament as add_players_to_tournament hands it to play_tournament.
Registered(nrounds, pool) ==
  [NewTournament(1, nrounds, <<None, None>>) EXCEPT !.players_list = pool]

PlayTournaments ==
  { Registered(n, pool) : n \in 1..MaxRounds, pool \in {Pool6, Pool6h} }
  \cup { Registered(n, Pool8) : n \in 1..(IF MaxRounds < 2 THEN MaxRounds ELSE 2) }

\* play_tournament is entered from the registration of a tournament, and
\* the result-capture collaborator reports any results.
InitPlay ==
  /\ players_json = Roster
  /\ capture = "any"
  /\ \E t \in PlayTournaments :
       /\ store = AddTournament([n \in TournamentNames |-> NoRecord], t)
       /\ tour = t
  /\ pc = "play"
  /\ selected_players = << >>
  /\ selected_players_index = << >>
  /\ num_players = 0
  /\ clock = 1
  /\ log = << >>
  /\ last = "choice 3: players added"
  /\ sessions = 1

NextPlay == PlayTournament \/ ResumeTournament

SpecPlay == InitPlay /\ [][NextPlay]_vars

\* Weak fairness of the loop's iteration, WF_vars(PlayTournament): an
\* iteration that stays possible is made (the user answers every prompt).
\* ENABLED <<PlayTournament>>_vars is written as the state predicate it is,
\* pc = "play": every branch of the iteration can be taken and changes pc or
\* log.
PlayFairness == []<>(pc # "play") \/ []<><<PlayTournament>>_vars

\* play_tournament is entered from the registration of a tournament, and
\* the result-capture collaborator reports one result for all the matches of
\* a round.
InitPlayUniform ==
  /\ players_json = Roster
  /\ capture = "uniform"
  /\ \E t \in PlayTournaments :
       /\ store = AddTournament([n \in TournamentNames |-> NoRecord], t)
       /\ tour = t
  /\ pc = "play"
  /\ selected_players = << >>
  /\ selected_players_index = << >>
  /\ num_players = 0
  /\ clock = 1
  /\ log = << >>
  /\ last = "choice 3: players added"
  /\ sessions = 1

\* The play loop on its own, when the user answers every prompt.
SpecPlayFair == InitPlayUniform /\ [][NextPlay]_vars /\ PlayFairness

\* ------------------------------------------------------------------ claims

\* The kinds of entries of the log.
LogHas(kind, k) == \E i \in DOMAIN log : log[i] = << kind, k >>

\* C1, as stated: after every round whose end_time is stamped, the
\* tournament is saved before the next round starts: when the pairing of
\* round k+1 is invoked after the end_time of round k was stamped, a save
\* lies between the two.
C1_SaveBeforeNextRound ==
  \A i, j \in DOMAIN log :
    (j < i /\ log[j][1] = "end_time" /\ log[i] = << "pairs", log[j][2] + 1 >>)
    => \E m \in DOMAIN log : j < m /\ m < i /\ log[m][1] = "save"

\* C1, amended: every round that completes is saved before play_tournament
\* returns: when the call returns after a round, the last thing it did was
\* to save, and the stored record is the record of the tournament with all
\* its completed rounds; while the loop goes on (the user continues), no
\* save has been made.
C1_SavedBeforeReturn ==
  /\ (pc = "menu" /\ last = "play_tournament: round")
       => /\ log # << >>
          /\ log[Len(log)] = << "save", tour.current_round - 1 >>
          /\ store[tour.name] = ToJson(tour)
          /\ \A i \in 1..tour.current_round :
               store[tour.name].rounds[i].end_time # None
  /\ (pc = "play") => \A i \in DOMAIN log : log[i][1] # "save"

\* A call of play_tournament that played two rounds has returned.
C1_Witness ==
  /\ pc = "menu"
  /\ last = "play_tournament: round"
  /\ LogHas("end_time", 0)
  /\ LogHas("pairs", 1)

\* A player count that may be paired.
EvenAtLeastSix(n) == n >= 6 /\ n % 2 = 0

\* C2: pairing is invoked only on a tournament whose players_list has an
\* even size of at least 6, and a validation (menu choice 3) that is refused
\* saves nothing, plays nothing and leaves the registration loop running.
C2_PairingOnlyOnValidPool ==
  [][ /\ (last' = "play_tournament: round")
           => EvenAtLeastSix(Len(tour.players_list))
      /\ (last' = "choice 3: refused")
           => /\ ~EvenAtLeastSix(Len(selected_players))
              /\ store' = store
              /\ log' = log
              /\ tour' = tour
              /\ selected_players' = selected_players
              /\ pc' = "register"
      /\ (last' = "choice 3: players added")
           => EvenAtLeastSix(Len(selected_players)) ]_vars

\* A count of seven is refused after a tournament was played.
C2_Witness ==
  /\ last = "choice 3: refused"
  /\ pc = "register"
  /\ Len(selected_players) = 7
  /\ LogHas("pairs", 0)

\* No two entries of a player list have the same full name.
DistinctNames(players) ==
  \A i, j \in DOMAIN players : i # j => ~SameName(players[i], players[j])

\* C3: neither the selected players nor the players_list committed on
\* validation ever holds two players of the same first and last name.
C3_NoDuplicateNames ==
  /\ DistinctNames(selected_players)
  /\ DistinctNames(tour.players_list)

\* The places (match, side) a player has in a sequence of matches.
Places(p, matches) ==
  { <<j, 1>> : j \in { m \in DOMAIN matches : matches[m].p1 = p } }
  \cup { <<j, 2>> : j \in { m \in DOMAIN matches : matches[m].p2 = p } }

\* The matches partition the players into disjoint pairs.
PartitionsIntoPairs(matches, players) ==
  /\ 2 * Len(matches) = Len(players)
  /\ \A i \in DOMAIN players : Cardinality(Places(players[i], matches)) = 1
  /\ \A j \in DOMAIN matches : matches[j].p1 # matches[j].p2

\* C4: the pairing of round 1 of a tournament with N players, N even and at
\* least 6, has N/2 matches, every player is in exactly one of them, and no
\* match pairs a player with themselves.
C4_RoundOnePartition ==
  (tour.current_round >= 1 /\ EvenAtLeastSix(Len(tour.players_list)))
    => PartitionsIntoPairs(tour.rounds[1].matches, tour.players_list)

\* Round 1 of a tournament of eight players has been paired.
C4_Witness ==
  /\ tour.current_round = 1
  /\ Len(tour.players_list) = 8
  /\ Len(tour.rounds[1].matches) = 4
  /\ tour.rounds[1].matches[1].p1 = tour.players_list[1]

\* Two players (by full name) were paired in one of the rounds.
Met(p, q, rounds) ==
  \E i \in DOMAIN rounds : \E j \in DOMAIN rounds[i].matches :
    \/ /\ SameName(rounds[i].matches[j].p1, p)
       /\ SameName(rounds[i].matches[j].p2, q)
    \/ /\ SameName(rounds[i].matches[j].p1, q)
       /\ SameName(rounds[i].matches[j].p2, p)

\* The players still unpaired when match j was formed, its first player
\* aside.
PoolAt(j, matches, players) ==
  { players[i] : i \in DOMAIN players }
  \ ({ matches[m].p1 : m \in 1..(j - 1) } \cup { matches[m].p2 : m \in 1..(j - 1) }
     \cup { matches[j].p1 })

\* Match j of round r pairs two players who met in an earlier round.
IsRepeat(r, j) ==
  Met(tour.rounds[r].matches[j].p1, tour.rounds[r].matches[j].p2,
      SubSeq(tour.rounds, 1, r - 1))

\* When match j of round r was formed, a player its first player had not met
\* was unpaired.
HadAlternative(r, j) ==
  \E q \in PoolAt(j, tour.rounds[r].matches, tour.players_list) :
    ~Met(tour.rounds[r].matches[j].p1, q, SubSeq(tour.rounds, 1, r - 1))

\* C5: in every round from the second on, a pair formed while a player the
\* first player had not met was still unpaired is not a repeat of an earlier
\* pair, and no player is left unpaired.
C5_NoAvoidableRepeat ==
  \A r \in 2..tour.current_round :
    /\ \A j \in DOMAIN tour.rounds[r].matches :
         HadAlternative(r, j) => ~IsRepeat(r, j)
    /\ EvenAtLeastSix(Len(tour.players_list))
         => PartitionsIntoPairs(tour.rounds[r].matches, tour.players_list)

\* Round 2 has a pair that is a repeat (its first player had met everyone
\* left) and a pair whose first player was not paired with the next player
\* of the ranking, whom it had met.
C5_Witness ==
  /\ tour.current_round = 2
  /\ \E j \in DOMAIN tour.rounds[2].matches : IsRepeat(2, j)
  /\ \E j \in DOMAIN tour.rounds[2].matches :
       /\ HadAlternative(2, j)
       /\ \E q \in PoolAt(j, tour.rounds[2].matches, tour.players_list) :
            Met(tour.rounds[2].matches[j].p1, q, SubSeq(tour.rounds, 1, 1))

\* The place of a player in the sorted leaderboard, and the score it shows.
PlaceOf(p, sl) == CHOOSE i \in DOMAIN sl : sl[i][1] = p

ScoreOf(p, sl) == sl[PlaceOf(p, sl)][2]

\* C6: the sorted leaderboard lists every registered player once, by
\* descending total score, players of equal score in the order of
\* players_list; when all scores are equal it is the registration order.
C6_LeaderboardStableDescending ==
  LET sl == SortedLeaderboard(tour)
      pl == tour.players_list
  IN  /\ Len(sl) = Len(pl)
      /\ \A a \in DOMAIN pl : \E i \in DOMAIN sl : sl[i][1] = pl[a]
      /\ \A i, j \in DOMAIN sl : i < j => sl[i][2] >= sl[j][2]
      /\ \A a, b \in DOMAIN pl :
           (a < b /\ ScoreOf(pl[a], sl) = ScoreOf(pl[b], sl))
             => PlaceOf(pl[a], sl) < PlaceOf(pl[b], sl)
      /\ (\A a, b \in DOMAIN pl : ScoreOf(pl[a], sl) = ScoreOf(pl[b], sl))
           => \A a \in DOMAIN pl : sl[a][1] = pl[a]

\* A leaderboard in which a later registered player is ahead of an earlier
\* one, and two players are tied.
C6_Witness ==
  LET sl == SortedLeaderboard(tour)
      pl == tour.players_list
  IN  /\ \E a, b \in DOMAIN pl :
           a < b /\ ScoreOf(pl[a], sl) < ScoreOf(pl[b], sl)
      /\ \E a, b \in DOMAIN pl :
           a < b /\ ScoreOf(pl[a], sl) = ScoreOf(pl[b], sl)
                 /\ ScoreOf(pl[a], sl) > 0

\* C7: a call of play_tournament on a tournament saved with current_round = k
\* starts with round k and works on rounds of index k and more only: the
\* rounds before k and the number of rounds stay as saved.
C7_ResumeAtSavedRound ==
  [][ (pc = "play" /\ last' = "play_tournament: round")
        => LET saved == FromJson(store[tour.name])
               k     == saved.current_round
           IN  /\ tour.current_round >= k
               /\ (log = << >>) => tour.current_round = k
               /\ Len(tour'.rounds) = Len(saved.rounds)
               /\ \A i \in 1..k : tour'.rounds[i] = saved.rounds[i]
               /\ \A e \in (Len(log) + 1)..Len(log') :
                    log'[e][2] = tour.current_round ]_vars

\* A call of play_tournament that began with the round of index 1.
C7_Witness ==
  /\ last = "play_tournament: round"
  /\ log # << >>
  /\ log[1][2] = 1
  /\ tour.rounds[1].matches # << >>
  /\ tour.rounds[2].matches # << >>

\* current_round is an index of a round, or the number of rounds.
InRange(t) == 0 <= t.current_round /\ t.current_round <= Len(t.rounds)

\* C8: current_round stays within [0, len(rounds)], never decreases in a
\* call of play_tournament, and grows by exactly 1 with each round played.
C8_CurrentRound ==
  /\ InRange(tour)
  /\ \A n \in TournamentNames : InRange(FromJson(store[n]))
  /\ [][ /\ InRange(tour')
         /\ \A n \in TournamentNames : InRange(FromJson(store'[n]))
         /\ (pc = "play")
              => /\ tour'.current_round =
                      tour.current_round
                      + (IF last' = "play_tournament: round" THEN 1 ELSE 0)
                 /\ store'[tour.name].current_round
                      >= store[tour.name].current_round ]_vars

\* A tournament of two rounds was played to its end.
C8_Witness ==
  /\ pc = "menu"
  /\ last = "play_tournament: round"
  /\ tour.current_round = 2
  /\ Len(tour.rounds) = 2

\* C9: when resume_tournament gets no tournament, or
\* resume_unstarted_tournament finds none or none is chosen, the controller
\* returns to the menu: nothing is played, registered or saved, and no
\* tournament changes.
C9_ResumeOfNothing ==
  [][ (last' \in { "resume_tournament: none",
                   "resume_unstarted_tournament: none",
                   "resume_unstarted_tournament: none chosen" })
        => /\ pc = "menu" /\ pc' = "menu"
           /\ UNCHANGED << store, tour, selected_players,
                           selected_players_index, num_players, clock, log,
                           sessions >> ]_vars

\* No unstarted tournament was chosen although one is stored.
C9_Witness ==
  /\ last = "resume_unstarted_tournament: none chosen"
  /\ pc = "menu"
  /\ FindUnstartedTournaments(store) # {}

\* C10: in play_tournament a timestamp that is set is never written again
\* or cleared, an end_time is only set on a round whose start_time is set,
\* and a completed round stays completed.
C10_RoundLifecycle ==
  [][ (pc = "play")
        => /\ Len(tour'.rounds) = Len(tour.rounds)
           /\ \A i \in DOMAIN tour.rounds :
                /\ tour.rounds[i].start_time # None
                     => tour'.rounds[i].start_time = tour.rounds[i].start_time
                /\ tour.rounds[i].end_time # None
                     => tour'.rounds[i].end_time = tour.rounds[i].end_time
                /\ (tour.rounds[i].end_time = None
                    /\ tour'.rounds[i].end_time # None)
                     => tour'.rounds[i].start_time # None ]_vars

\* A round that was in progress when the call began has been completed.
C10_Witness ==
  /\ last = "play_tournament: round"
  /\ tour.current_round >= 1
  /\ tour.rounds[1].start_time = 1
  /\ tour.rounds[1].end_time > 1
  /\ LogHas("end_time", 0)
  /\ ~LogHas("start_time", 0)

\* The entries a step adds to the log.
Added == SubSeq(log', Len(log) + 1, Len(log'))

\* The number of entries of a kind in a sequence of log entries.
CountOf(kind, entries) ==
  Cardinality({ i \in DOMAIN entries : entries[i][1] = kind })

\* C11: after the last configured round play_tournament advances
\* current_round, saves and stops without asking whether to continue; after
\* any other round it asks exactly once, and on 'stop' advances, saves and
\* stops, on 'continue' advances and goes on with the next round.
C11_ContinuationProtocol ==
  [][ (pc = "play" /\ last' = "play_tournament: round")
        => /\ tour'.current_round = tour.current_round + 1
           /\ IF tour.current_round = Len(tour.rounds) - 1
              THEN /\ CountOf("ask", Added) = 0
                   /\ CountOf("save", Added) = 1
                   /\ store'[tour.name] = ToJson(tour')
                   /\ pc' = "menu"
              ELSE /\ CountOf("ask", Added) = 1
                   /\ \/ /\ CountOf("save", Added) = 1
                         /\ store'[tour.name] = ToJson(tour')
                         /\ pc' = "menu"
                      \/ /\ CountOf("save", Added) = 0
                         /\ store' = store
                         /\ pc' = "play" ]_vars

\* A call that was told to continue after the first round and stopped by
\* itself after the second and last one.
C11_Witness ==
  /\ pc = "menu"
  /\ last = "play_tournament: round"
  /\ LogHas("ask", 0)
  /\ ~LogHas("save", 0)
  /\ LogHas("save", 1)
  /\ ~LogHas("ask", 1)

\* C12: play_tournament entered with current_round = len(rounds) plays no
\* round, does not read rounds[len(rounds)], and returns without failing and
\* without changing or saving the tournament.
C12_NoRoundPastTheLast ==
  [][ (pc = "play" /\ tour.current_round = Len(tour.rounds))
        => /\ pc' = "menu"
           /\ last' = "play_tournament: done"
           /\ UNCHANGED << tour, store, log >> ]_vars

\* Every question of the log was answered 'continue': the next round was
\* paired.
AllContinue ==
  \A i \in DOMAIN log : log[i][1] = "ask" => LogHas("pairs", log[i][2] + 1)

\* The rounds played by the call of play_tournament are no more than the
\* rounds that were left when it began, and a call that returns after
\* nothing but 'continue' has played them all.
RoundsWithinThoseLeft ==
  (last = "play_tournament: round")
    => /\ CountOf("pairs", log) <= Len(tour.rounds) - log[1][2]
       /\ (pc = "menu" /\ AllContinue) => tour.current_round = Len(tour.rounds)

\* C13: play_tournament entered with 0 <= current_round < len(rounds)
\* terminates whatever the answers are, after at most
\* len(rounds) - current_round rounds, and with current_round = len(rounds)
\* when every answer is 'continue'.
C13_Terminates ==
  /\ []RoundsWithinThoseLeft
  /\ (pc = "play" /\ 0 <= tour.current_round
                  /\ tour.current_round < Len(tour.rounds))
       ~> (pc = "menu" /\ last = "play_tournament: round")

\* A call that began with the first of two rounds has returned after two
\* rounds, the answer being 'continue'.
C13_Witness ==
  /\ pc = "menu"
  /\ last = "play_tournament: round"
  /\ log[1][2] = 0
  /\ CountOf("pairs", log) = 2
  /\ AllContinue
  /\ tour.current_round = Len(tour.rounds)

\* C14, as stated: the leaderboard of a round is computed only after the
\* end_time of that round was stamped.
C14_LeaderboardAfterEnd ==
  \A i \in DOMAIN log :
    (log[i][1] = "leaderboard")
      => \E j \in DOMAIN log : j < i /\ log[j] = << "end_time", log[i][2] >>

\* The place of a step in an iteration of play_tournament.
StepRank(kind) ==
  CASE kind = "start_time"  -> 1
    [] kind = "pairs"       -> 2
    [] kind = "leaderboard" -> 3
    [] kind = "end_time"    -> 4
    [] kind = "ask"         -> 5
    [] kind = "save"        -> 6

\* C14, amended: in each iteration the steps are: stamp start_time if unset,
\* invoke the pairing engine, compute and display the leaderboard, then
\* stamp end_time if unset; the leaderboard of a round is computed before
\* that round's end_time is set.
C14_LeaderboardBeforeEnd ==
  /\ \A i, j \in DOMAIN log :
       (log[i][2] = log[j][2] /\ StepRank(log[i][1]) < StepRank(log[j][1]))
         => i < j
  /\ \A i \in DOMAIN log :
       (log[i][1] = "leaderboard")
         => /\ \E j \in DOMAIN log : j < i /\ log[j] = << "pairs", log[i][2] >>
            /\ \E j \in DOMAIN log : i < j /\ log[j] = << "end_time", log[i][2] >>

\* An iteration stamped the start and the end of a round and computed its
\* leaderboard.
C14_Witness ==
  /\ last = "play_tournament: round"
  /\ LogHas("start_time", tour.current_round - 1)
  /\ LogHas("leaderboard", tour.current_round - 1)
  /\ LogHas("end_time", tour.current_round - 1)
  /\ tour.players_score # << >>

\* The dictionary built from (player, score) entries taken in order, an entry
\* replacing an earlier one of the same first and last name.
RECURSIVE DictOf(_)
DictOf(entries) ==
  IF entries = << >> THEN [n \in {} |-> 0]
  ELSE LET d == DictOf(SubSeq(entries, 1, Len(entries) - 1))
           e == entries[Len(entries)]
           key == << e[1].firstname, e[1].lastname >>
       IN  [n \in DOMAIN d \cup {key} |-> IF n = key THEN e[2] ELSE d[n]]

\* Two registered players have the same first and last name.
HasHomonyms(players) ==
  \E i, j \in DOMAIN players : i # j /\ SameName(players[i], players[j])

\* C15: after calculate_leaderboard, players_score has one key per distinct
\* display name of the registered players; players of the same name
\* overwrite each other in leaderboard order, the key keeping the score of
\* the last of them in the sorted leaderboard, and the mapping then has
\* fewer entries than there are players.
C15_PlayersScoreByName ==
  (tour.current_round >= 1)
    => /\ DOMAIN tour.players_score =
            { << tour.players_list[i].firstname, tour.players_list[i].lastname >> :
                i \in DOMAIN tour.players_list }
       /\ tour.players_score = DictOf(SortedLeaderboard(tour))
       /\ HasHomonyms(tour.players_list)
            => Cardinality(DOMAIN tour.players_score) < Len(tour.players_list)
       /\ ~HasHomonyms(tour.players_list)
            => Cardinality(DOMAIN tour.players_score) = Len(tour.players_list)

\* A leaderboard was computed for six players, two of them of one name, who
\* have points.
C15_Witness ==
  /\ tour.current_round >= 1
  /\ Len(tour.players_list) = 6
  /\ HasHomonyms(tour.players_list)
  /\ Cardinality(DOMAIN tour.players_score) = 5
  /\ tour.players_score[<<1, 1>>] > 0

\* C16: get_selected_player returns only for a digit string whose value i
\* satisfies 1 <= i <= len(sorted_players), with the player at that place and
\* i; any other input gives no result and the prompt repeats, and no input
\* makes it raise.
C16_IndexSelection ==
  [][ (pc = "index_prompt")
        => /\ pc' \in { "index_prompt", "register" }
           /\ (pc' = "register")
                => last' \in { "index: added", "index: already added" }
           /\ (last' = "index: added")
                => \E i \in 1..Len(SortedPlayers(players_json)) :
                     /\ selected_players' =
                          Append(selected_players, SortedPlayers(players_json)[i])
                     /\ selected_players_index' =
                          Append(selected_players_index, i)
           /\ (pc' = "index_prompt") => UNCHANGED regvars ]_vars

\* C17: every tournament play_tournament hands to save has
\* 0 < current_round <= len(rounds) and all its rounds of index below
\* current_round completed; saved after an early stop it has
\* current_round < len(rounds) and is listed as resumable, saved after its
\* final round it has current_round = len(rounds) and is listed neither as
\* unstarted nor as resumable.
C17_SavedStates ==
  [][ (pc = "play" /\ CountOf("save", Added) > 0)
        => LET saved == store'[tour.name]
           IN  /\ saved = ToJson(tour')
               /\ 0 < saved.current_round
               /\ saved.current_round <= Len(saved.rounds)
               /\ \A i \in 1..saved.current_round :
                    /\ saved.rounds[i].start_time # None
                    /\ saved.rounds[i].end_time # None
               /\ saved \notin FindUnstartedTournaments(store')
               /\ IF tour.current_round < Len(tour.rounds) - 1
                  THEN /\ saved.current_round < Len(saved.rounds)
                       /\ saved \in Resumable(store')
                  ELSE /\ saved.current_round = Len(saved.rounds)
                       /\ saved \notin Resumable(store') ]_vars

\* A tournament saved after an early stop was resumed, played to its end and
\* saved again.
C17_Witness ==
  /\ pc = "menu"
  /\ last = "play_tournament: round"
  /\ sessions = 2
  /\ log[1][2] = 1
  /\ store[tour.name].current_round = 2
  /\ Resumable(store) = {}

\* C18: when the registration loop is left by a confirmed quit, the
\* tournament is not saved, play_tournament is not entered, and the
\* tournament's players_list is what it was when add_players_to_tournament
\* was entered (the list of the stored record the tournament was made
\* from), also when it already had players.
C18_QuitKeepsPlayersList ==
  [][ (last' = "choice q: confirmed")
        => /\ store' = store
           /\ pc' = "menu"
           /\ log' = log
           /\ tour'.players_list = FromJson(store[tour.name]).players_list ]_vars

\* C19: whenever the add-player menu is displayed, num_players is the number
\* of players selected for the tournament being registered.
C19_NumPlayersIsSelectedCount ==
  (pc = "register") => num_players = Len(selected_players)

\* C20: the registration loop can always be left: at the menu a confirmed
\* quit leaves it, and inside the index prompt of get_selected_player some
\* line the user can type brings the menu back, also when the player
\* registry is empty.
C20_LoopCanBeLeft ==
  /\ (pc = "register") => ENABLED (AddPlayersQuit /\ pc' = "menu")
  /\ (pc = "index_prompt")
       => \E line \in IndexLines :
            /\ IsDigit(line)
            /\ ~IntRaises(line)
            /\ 1 <= IntOf(line)
            /\ IntOf(line) <= Len(SortedPlayers(players_json))

====
